---- MODULE Spec2Model ----
(***************************************************************************)
(* Verification model of the nebulaX trading algorithm core:               *)
(*   - Backtester._execute_trade   (src/trading_algorithm/backtester.py)   *)
(*   - MixGoAgent.analyze          (trading_system/mixgo.py)               *)
(*   - call_llm                    (signals/utils/llm.py)                  *)
(*   - TechnicalAnalystAgent       (trading_system/technical_analyst.py)   *)
(*   - RiskManager.analyze         (trading_system/risk_manager.py)        *)
(*                                                                         *)
(* Money amounts are Python floats in the source.  They are modelled as    *)
(* exact rationals [n, d] in lowest terms (IEEE-754 rounding is not        *)
(* modelled); share counts are integers.                                   *)
(***************************************************************************)
EXTENDS Integers, Sequences, FiniteSets, TLC

(***************************************************************************)
(* Bounds of the model                                                     *)
(***************************************************************************)
MaxTrades == 3
MaxQty == 2
MaxShares == 4

Tickers == {"T1", "T2"}
TickerOrder == <<"T1", "T2">>
InitialCapitals == {3}
Prices == {1, 2}
Quantities == 1..MaxQty

(***************************************************************************)
(* Exact rational arithmetic                                               *)
(***************************************************************************)
Abs(x) == IF x < 0 THEN -x ELSE x

Min(a, b) == IF a < b THEN a ELSE b

Max(a, b) == IF a > b THEN a ELSE b

RECURSIVE GCD(_, _)
GCD(a, b) == IF b = 0 THEN a ELSE GCD(b, a % b)

R(n, d) ==
    LET g == GCD(Abs(n), Abs(d))
        s == IF d < 0 THEN -1 ELSE 1
    IN  [n |-> (s * n) \div g, d |-> (s * d) \div g]

RInt(i) == [n |-> i, d |-> 1]

RZero == RInt(0)

RAdd(a, b) == R(a.n * b.d + b.n * a.d, a.d * b.d)

RSub(a, b) == R(a.n * b.d - b.n * a.d, a.d * b.d)

RMul(a, b) == R(a.n * b.n, a.d * b.d)

RDiv(a, b) == R(a.n * b.d, a.d * b.n)

RLe(a, b) == a.n * b.d <= b.n * a.d

RLt(a, b) == a.n * b.d < b.n * a.d

RMin(a, b) == IF RLt(b, a) THEN b ELSE a

RMax(a, b) == IF RLt(a, b) THEN b ELSE a

\* Python int(x) on a float: truncation toward zero
Trunc(a) == IF a.n >= 0 THEN a.n \div a.d ELSE -((-a.n) \div a.d)

MarginRequirements == {RInt(0), R(1, 2), RInt(1)}

(***************************************************************************)
(* State                                                                   *)
(***************************************************************************)
VARIABLES
    portfolio,      \* Backtester.portfolio
    last,           \* the last _execute_trade call and its return value
    hist,           \* history: adds to each side since it was last flat
    nTrades,        \* number of _execute_trade calls so far
    pc,             \* MixGoAgent.analyze: the step it is at
    fetchKind,      \* what data_fetcher.get_prices does for each ticker
    prices_dict,    \* analyze: the tickers with a non-empty price frame
    agent_signals,  \* all_signals: agent name -> tickers it gave a signal for
    risk_signals,   \* all_signals["risk_manager"]: ticker -> risk signal
    idx,            \* analyze: position in the decision loop over tickers
    attempt,        \* call_llm: the loop variable of the retry loop
    calls,          \* call_llm: provider invocations for this decision
    proposed,       \* ticker -> the decision call_llm returned
    decisions,      \* analyze: ticker -> decision after the risk clamp
    returned,       \* what analyze returned to its caller
    failed,         \* history: tickers for which some step raised
    fellBack,       \* history: tickers whose decision is call_llm's default
    raisedBy        \* the collaborator whose exception left analyze

VARIABLES
    techStatus,     \* TechnicalAnalystAgent.analyze: "idle", "running", "returned", "raised"
    techIdx,        \* position of its loop over the tickers
    techSignals     \* its signals dict

ledgerVars == <<portfolio, last, hist, nTrades>>

orchVars == <<pc, fetchKind, prices_dict, agent_signals, risk_signals, idx,
              attempt, calls, proposed, decisions, returned, failed, fellBack,
              raisedBy>>

techVars == <<techStatus, techIdx, techSignals>>

VARIABLES
    allocation,     \* _optimize_portfolio_decisions: the allocation of the risk manager
    riskPc,         \* RiskManager sizing of one ticker: "idle", "kelly", "metrics", "done"
    price_df,       \* what the sizing reads from the ticker's price frame
    kelly_fraction, \* result of _calculate_kelly_fraction_polars
    risk_metrics,   \* result of _calculate_risk_metrics
    perfPc,         \* run_backtest: "idle", "running", "done"
    portfolio_values,     \* self.portfolio_values, the recorded values
    performance_metrics,  \* self.performance_metrics
    ensPc,          \* _weighted_signal_combination: "idle", "call", "done"
    ensSignals,     \* its argument signals: the five sub-strategy results
    ensCombined     \* its result combined_signal

riskVars == <<riskPc, price_df, kelly_fraction, risk_metrics>>

perfVars == <<perfPc, portfolio_values, performance_metrics>>

ensVars == <<ensPc, ensSignals, ensCombined>>

VARIABLES
    summary,        \* _optimize_portfolio_decisions: the summary of the risk manager
    fetch_owner,    \* rate-limited fetch: "idle", "backtester" or "data_fetcher"
    fetch_attempt,  \* its loop variable attempt
    fetch_trace,    \* history: what each invocation of fetch_func did
    fetch_waits,    \* history: sleeps that followed a rate-limit response
    fetch_result    \* "pending", "result" (the value of fetch_func) or "None"

fetchVars == <<fetch_owner, fetch_attempt, fetch_trace, fetch_waits, fetch_result>>

VARIABLES
    btPc,           \* run_backtest: "idle", a step of the day, or "done"
    current_date,   \* its loop variable: position in date_range
    current_prices, \* the prices resolved for the day
    day_decisions,  \* the decisions analyze returned for the day
    trade_idx,      \* position of the trade loop in the decisions
    events          \* history: analyze, trade and record steps with the ledger

btVars == <<btPc, current_date, current_prices, day_decisions, trade_idx, events>>

runVars == <<fetchVars, btVars>>

restVars == <<riskVars, perfVars, ensVars, runVars>>

vars == <<portfolio, last, hist, nTrades, pc, fetchKind, prices_dict,
          agent_signals, risk_signals, idx, attempt, calls, proposed,
          decisions, returned, failed, fellBack, raisedBy,
          techStatus, techIdx, techSignals, allocation, riskPc, price_df,
          kelly_fraction, risk_metrics, perfPc, portfolio_values,
          performance_metrics, ensPc, ensSignals, ensCombined, summary,
          fetch_owner, fetch_attempt, fetch_trace, fetch_waits, fetch_result,
          btPc, current_date, current_prices, day_decisions, trade_idx, events>>

(***************************************************************************)
(* Backtester: the portfolio ledger (backtester.py)                        *)
(***************************************************************************)
TradeActions == {"buy", "sell", "short", "cover"}

\* Backtester.__init__: the portfolio of a new backtest
NewPortfolio(initial_capital, initial_margin_requirement) ==
    [cash |-> RInt(initial_capital),
     margin_used |-> RZero,
     margin_requirement |-> initial_margin_requirement,
     positions |-> [t \in Tickers |->
                      [long |-> 0, short |-> 0,
                       long_cost_basis |-> RZero,
                       short_cost_basis |-> RZero,
                       short_margin_used |-> RZero]],
     realized_gains |-> [t \in Tickers |-> [long |-> RZero, short |-> RZero]]]

\* mutant: the old shares are not weighted in
WeightedBasis_Unweighted(old_cost_basis, old_shares, total_new_cost, total_shares) ==
    IF total_shares > 0
    THEN RDiv(RAdd(old_cost_basis, total_new_cost), RInt(total_shares))
    ELSE old_cost_basis

\* weighted average cost basis of old_shares at old_cost_basis plus an add
\* costing total_new_cost; the basis is left alone when total_shares is 0
WeightedBasis(old_cost_basis, old_shares, total_new_cost, total_shares) ==
    IF total_shares > 0
    THEN RDiv(RAdd(RMul(old_cost_basis, RInt(old_shares)), total_new_cost),
              RInt(total_shares))
    ELSE old_cost_basis

\* mutant: the affordable quantity is rounded up
MaxAffordable_RoundUp(cash, current_price) ==
    Trunc(RDiv(cash, current_price)) + 1

\* max_quantity = int(cash / current_price)
MaxAffordable(cash, current_price) == Trunc(RDiv(cash, current_price))

\* mutant: the shortable quantity ignores the margin ratio
MaxShortable_IgnoresRatio(cash, current_price, margin_ratio) ==
    Trunc(RDiv(cash, current_price))

\* max_quantity = int(cash / (current_price * margin_ratio)), 0 without margin
MaxShortable(cash, current_price, margin_ratio) ==
    IF RLt(RZero, margin_ratio)
    THEN Trunc(RDiv(cash, RMul(current_price, margin_ratio)))
    ELSE 0

\* mutant: the whole proceeds are posted as margin
MarginRequired_Full(proceeds, margin_ratio) == proceeds

\* margin_required = proceeds * self.portfolio["margin_requirement"]
MarginRequired(proceeds, margin_ratio) == RMul(proceeds, margin_ratio)

\* mutant: the gain of a sell is its proceeds
LongRealizedGain_Proceeds(current_price, avg_cost_per_share, quantity) ==
    RMul(current_price, RInt(quantity))

\* realized_gain = (current_price - avg_cost_per_share) * quantity
LongRealizedGain(current_price, avg_cost_per_share, quantity) ==
    RMul(RSub(current_price, avg_cost_per_share), RInt(quantity))

\* mutant: the gain of a cover has the wrong sign
ShortRealizedGain_Reversed(avg_short_price, current_price, quantity) ==
    RMul(RSub(current_price, avg_short_price), RInt(quantity))

\* realized_gain = (avg_short_price - current_price) * quantity
ShortRealizedGain(avg_short_price, current_price, quantity) ==
    RMul(RSub(avg_short_price, current_price), RInt(quantity))

\* mutant: a closed side keeps its cost basis
BasisAfterReduce_Kept(held_after, cost_basis) == cost_basis

\* if position[side] == 0: position[side + "_cost_basis"] = 0.0
BasisAfterReduce(held_after, cost_basis) ==
    IF held_after = 0 THEN RZero ELSE cost_basis

\* the long side grows by qty shares bought at current_price
LongAdd(pf, ticker, qty, current_price) ==
    LET position == pf.positions[ticker]
        cost == RMul(RInt(qty), current_price)
        total_shares == position.long + qty
        basis == WeightedBasis(position.long_cost_basis, position.long,
                               cost, total_shares)
    IN  [pf EXCEPT !.positions[ticker].long_cost_basis = basis,
                   !.positions[ticker].long = position.long + qty,
                   !.cash = RSub(pf.cash, cost)]

ExecBuy(pf, ticker, quantity, current_price) ==
    LET cost == RMul(RInt(quantity), current_price)
    IN  IF RLe(cost, pf.cash)
        THEN [pf |-> LongAdd(pf, ticker, quantity, current_price),
              ret |-> quantity]
        ELSE LET max_quantity == MaxAffordable(pf.cash, current_price)
             IN  IF max_quantity > 0
                 THEN [pf |-> LongAdd(pf, ticker, max_quantity, current_price),
                       ret |-> max_quantity]
                 ELSE [pf |-> pf, ret |-> 0]

\* mutant: the requested quantity is sold without the clamp
SellQuantity_NoClamp(quantity, held) == quantity

\* quantity = min(quantity, position["long"])
SellQuantity(quantity, held) == Min(quantity, held)

ExecSell(pf, ticker, quantity, current_price) ==
    LET position == pf.positions[ticker]
        qty == SellQuantity(quantity, position.long)
        avg_cost_per_share == IF position.long > 0
                              THEN position.long_cost_basis ELSE RZero
        realized_gain == LongRealizedGain(current_price, avg_cost_per_share, qty)
        new_long == position.long - qty
    IN  IF qty > 0
        THEN [pf |-> [pf EXCEPT
                        !.realized_gains[ticker].long = RAdd(@, realized_gain),
                        !.positions[ticker].long = new_long,
                        !.cash = RAdd(@, RMul(RInt(qty), current_price)),
                        !.positions[ticker].long_cost_basis =
                            BasisAfterReduce(new_long, @)],
              ret |-> qty]
        ELSE [pf |-> pf, ret |-> 0]

\* mutant: the margin of a short is booked on the position only
ShortAdd_PositionMarginOnly(pf, ticker, qty, current_price) ==
    LET position == pf.positions[ticker]
        proceeds == RMul(current_price, RInt(qty))
        margin_required == MarginRequired(proceeds, pf.margin_requirement)
        total_shares == position.short + qty
        basis == WeightedBasis(position.short_cost_basis, position.short,
                               proceeds, total_shares)
    IN  [pf EXCEPT !.positions[ticker].short_cost_basis = basis,
                   !.positions[ticker].short = position.short + qty,
                   !.positions[ticker].short_margin_used = RAdd(@, margin_required),
                   !.cash = RSub(RAdd(@, proceeds), margin_required)]

\* the short side grows by qty shares sold short at current_price
ShortAdd(pf, ticker, qty, current_price) ==
    LET position == pf.positions[ticker]
        proceeds == RMul(current_price, RInt(qty))
        margin_required == MarginRequired(proceeds, pf.margin_requirement)
        total_shares == position.short + qty
        basis == WeightedBasis(position.short_cost_basis, position.short,
                               proceeds, total_shares)
    IN  [pf EXCEPT !.positions[ticker].short_cost_basis = basis,
                   !.positions[ticker].short = position.short + qty,
                   !.positions[ticker].short_margin_used = RAdd(@, margin_required),
                   !.margin_used = RAdd(@, margin_required),
                   !.cash = RSub(RAdd(@, proceeds), margin_required)]

ExecShort(pf, ticker, quantity, current_price) ==
    LET proceeds == RMul(current_price, RInt(quantity))
        margin_required == MarginRequired(proceeds, pf.margin_requirement)
    IN  IF RLe(margin_required, pf.cash)
        THEN [pf |-> ShortAdd(pf, ticker, quantity, current_price),
              ret |-> quantity]
        ELSE LET max_quantity == MaxShortable(pf.cash, current_price,
                                              pf.margin_requirement)
             IN  IF max_quantity > 0
                 THEN [pf |-> ShortAdd(pf, ticker, max_quantity, current_price),
                       ret |-> max_quantity]
                 ELSE [pf |-> pf, ret |-> 0]

\* quantity = min(quantity, position["short"])
CoverQuantity(quantity, held) == Min(quantity, held)

\* mutant: a cover releases the whole margin of the position
MarginToRelease_All(qty, held, short_margin_used) == short_margin_used

\* margin_to_release = (quantity / short) * short_margin_used
MarginToRelease(qty, held, short_margin_used) ==
    LET portion == IF held > 0 THEN R(qty, held) ELSE RInt(1)
    IN  RMul(portion, short_margin_used)

ExecCover(pf, ticker, quantity, current_price) ==
    LET position == pf.positions[ticker]
        qty == CoverQuantity(quantity, position.short)
        cover_cost == RMul(RInt(qty), current_price)
        avg_short_price == IF position.short > 0
                           THEN position.short_cost_basis ELSE RZero
        realized_gain == ShortRealizedGain(avg_short_price, current_price, qty)
        margin_to_release == MarginToRelease(qty, position.short,
                                             position.short_margin_used)
        new_short == position.short - qty
    IN  IF qty > 0
        THEN [pf |-> [pf EXCEPT
                        !.positions[ticker].short = new_short,
                        !.positions[ticker].short_margin_used =
                            IF new_short = 0 THEN RZero
                            ELSE RSub(@, margin_to_release),
                        !.margin_used = RSub(@, margin_to_release),
                        !.cash = RSub(RAdd(@, margin_to_release), cover_cost),
                        !.realized_gains[ticker].short = RAdd(@, realized_gain),
                        !.positions[ticker].short_cost_basis =
                            BasisAfterReduce(new_short, @)],
              ret |-> qty]
        ELSE [pf |-> pf, ret |-> 0]

\* mutant: the call goes to its branch without the check of line 334
ExecuteTrade_Unchecked(pf, ticker, action, quantity, current_price) ==
    CASE action = "buy" -> ExecBuy(pf, ticker, quantity, current_price)
      [] action = "sell" -> ExecSell(pf, ticker, quantity, current_price)
      [] action = "short" -> ExecShort(pf, ticker, quantity, current_price)
      [] action = "cover" -> ExecCover(pf, ticker, quantity, current_price)
      [] OTHER -> [pf |-> pf, ret |-> 0]

\* Backtester._execute_trade(ticker, action, quantity, current_price):
\* the portfolio after the call and the executed quantity it returns
ExecuteTrade(pf, ticker, action, quantity, current_price) ==
    IF quantity <= 0 \/ RLe(current_price, RZero)
    THEN [pf |-> pf, ret |-> 0]
    ELSE CASE action = "buy" -> ExecBuy(pf, ticker, quantity, current_price)
           [] action = "sell" -> ExecSell(pf, ticker, quantity, current_price)
           [] action = "short" -> ExecShort(pf, ticker, quantity, current_price)
           [] action = "cover" -> ExecCover(pf, ticker, quantity, current_price)
           [] OTHER -> [pf |-> pf, ret |-> 0]

(***************************************************************************)
(* History of the adds to each side since the side was last flat           *)
(***************************************************************************)
NoHist == [qp |-> 0, q |-> 0, reduced |-> FALSE]

\* side "long" is increased by buy and reduced by sell; "short" by short, cover
HistStep(h, held_after, isAdd, isReduce, executed, price) ==
    IF held_after = 0 THEN NoHist
    ELSE IF isAdd THEN [h EXCEPT !.qp = @ + executed * price, !.q = @ + executed]
    ELSE IF isReduce /\ executed > 0 THEN [h EXCEPT !.reduced = TRUE]
    ELSE h

NoTrade == [ticker |-> "T1", action |-> "none", quantity |-> 0, price |-> 0,
            executed |-> 0]

NoDecisions == [t \in {} |-> 0]

\* the summary before get_portfolio_summary has run
NoSummary ==
    [total_value |-> RZero, largest_position_pct |-> RZero,
     within_risk_limits |-> TRUE]

\* the locals of MixGoAgent.analyze before its first step
OrchReset ==
    /\ prices_dict = {}
    /\ agent_signals = [a \in {} |-> {}]
    /\ risk_signals = NoDecisions
    /\ idx = 1
    /\ attempt = 0
    /\ calls = 0
    /\ proposed = NoDecisions
    /\ decisions = NoDecisions
    /\ returned = NoDecisions
    /\ failed = {}
    /\ fellBack = {}
    /\ raisedBy = "none"
    /\ allocation = NoDecisions
    /\ summary = NoSummary

\* no analysis is running
OrchIdle ==
    /\ pc = "idle"
    /\ fetchKind = [t \in Tickers |-> "data"]
    /\ OrchReset

\* signals = {} at the top of TechnicalAnalystAgent.analyze
TechReset ==
    /\ techIdx = 1
    /\ techSignals = NoDecisions

TechIdle == techStatus = "idle" /\ TechReset

NoFrame == [height |-> 0]

\* kelly_fraction of a sizing that has not run
NoKelly == RZero

NoMetrics == [recommended_shares |-> 0]

\* no sizing is running
RiskIdle ==
    /\ riskPc = "idle"
    /\ price_df = NoFrame
    /\ kelly_fraction = NoKelly
    /\ risk_metrics = NoMetrics

\* Backtester.__init__: self.portfolio_values = [], and the metrics at 0.0
NewPerformanceMetrics == [max_drawdown |-> RZero, max_drawdown_date |-> 0]

\* no backtest is running
PerfIdle ==
    /\ perfPc = "idle"
    /\ portfolio_values = << >>
    /\ performance_metrics = NewPerformanceMetrics

NoSignals == [s \in {} |-> 0]

NoCombined == [signal |-> "neutral", confidence |-> RZero]

\* no combination is running
EnsIdle ==
    /\ ensPc = "idle"
    /\ ensSignals = NoSignals
    /\ ensCombined = NoCombined

\* no rate-limited fetch is running
FetchIdle ==
    /\ fetch_owner = "idle"
    /\ fetch_attempt = 0
    /\ fetch_trace = << >>
    /\ fetch_waits = 0
    /\ fetch_result = "pending"

\* no backtest day loop is running
BacktestIdle ==
    /\ btPc = "idle"
    /\ current_date = 1
    /\ current_prices = NoDecisions
    /\ day_decisions = NoDecisions
    /\ trade_idx = 1
    /\ events = << >>

RunIdle == FetchIdle /\ BacktestIdle

RestIdle == RiskIdle /\ PerfIdle /\ EnsIdle /\ RunIdle

LedgerStart(margins) ==
    /\ \E c \in InitialCapitals, m \in margins :
          portfolio = NewPortfolio(c, m)
    /\ last = NoTrade
    /\ hist = [t \in Tickers |-> [long |-> NoHist, short |-> NoHist]]
    /\ nTrades = 0

LedgerInit ==
    LedgerStart(MarginRequirements) /\ OrchIdle /\ TechIdle /\ RestIdle

\* one call self._execute_trade(ticker, action, quantity, current_price):
\* its effect on the ledger
LedgerCall(ticker, action, quantity, price) ==
    /\ LET r == ExecuteTrade(portfolio, ticker, action, quantity, RInt(price))
           pos == r.pf.positions[ticker]
       IN  /\ portfolio' = r.pf
           /\ last' = [ticker |-> ticker, action |-> action,
                       quantity |-> quantity, price |-> price,
                       executed |-> r.ret]
           /\ hist' = [hist EXCEPT
                 ![ticker].long = HistStep(@, pos.long, action = "buy",
                                           action = "sell", r.ret, price),
                 ![ticker].short = HistStep(@, pos.short, action = "short",
                                            action = "cover", r.ret, price)]
    /\ nTrades' = nTrades + 1

\* a call made on its own, from any ledger state
Trade(ticker, action, quantity, price) ==
    /\ nTrades < MaxTrades
    /\ LedgerCall(ticker, action, quantity, price)
    /\ UNCHANGED <<orchVars, techVars, allocation, summary, restVars>>

Buy == \E t \in Tickers, q \in Quantities, p \in Prices : Trade(t, "buy", q, p)

Sell == \E t \in Tickers, q \in Quantities, p \in Prices : Trade(t, "sell", q, p)

Short == \E t \in Tickers, q \in Quantities, p \in Prices : Trade(t, "short", q, p)

Cover == \E t \in Tickers, q \in Quantities, p \in Prices : Trade(t, "cover", q, p)

LedgerNext == Buy \/ Sell \/ Short \/ Cover

LedgerSpec == LedgerInit /\ [][LedgerNext]_vars

(***************************************************************************)
(* Claims about the ledger                                                 *)
(***************************************************************************)
NonNeg(x) == RLe(RZero, x)

\* C1: a buy or a short executed from a ledger state with cash >= 0 leaves
\* cash >= 0, whatever quantity and price were requested.
C1_BuyShortKeepCashNonNegative ==
    [][(last'.action \in {"buy", "short"} /\ NonNeg(portfolio.cash))
         => NonNeg(portfolio'.cash)]_vars

\* a buy that was clipped to the affordable quantity
C1_Witness ==
    /\ last.action = "buy"
    /\ last.executed > 0
    /\ last.executed < last.quantity
    /\ NonNeg(portfolio.cash)

\* C2: after any sequence of trades every position has long >= 0 and
\* short >= 0 (a sell or cover executes at most the held quantity).
C2_PositionsNonNegative ==
    /\ \A t \in Tickers :
          /\ portfolio.positions[t].long >= 0
          /\ portfolio.positions[t].short >= 0
    /\ last.executed <= last.quantity

\* a sell of more shares than were held, executed for the held quantity
C2_Witness ==
    /\ last.action = "sell"
    /\ last.executed > 0
    /\ last.executed < last.quantity
    /\ portfolio.positions[last.ticker].long = 0

\* the cost basis of an open side is the average price of the adds recorded
\* in h since the side was last flat
BasisIsAverage(held, basis, h) == held > 0 => basis = R(h.qp, h.q)

\* a reducing trade that leaves the side open keeps the side's cost basis
ReduceKeepsBasis ==
    LET t == last'.ticker
    IN  /\ (last'.action = "sell" /\ portfolio'.positions[t].long > 0)
            => portfolio'.positions[t].long_cost_basis
                 = portfolio.positions[t].long_cost_basis
        /\ (last'.action = "cover" /\ portfolio'.positions[t].short > 0)
            => portfolio'.positions[t].short_cost_basis
                 = portfolio.positions[t].short_cost_basis

\* C3 (as claimed): while a side is open its cost basis is
\* sum(executed_qty * price) / sum(executed_qty) over all the adds made since
\* the side was last flat, and a sell or cover that leaves the side open does
\* not change the basis.
C3_BasisOverAllAddsSinceFlat ==
    [][/\ \A t \in Tickers :
            /\ BasisIsAverage(portfolio'.positions[t].long,
                              portfolio'.positions[t].long_cost_basis,
                              hist'[t].long)
            /\ BasisIsAverage(portfolio'.positions[t].short,
                              portfolio'.positions[t].short_cost_basis,
                              hist'[t].short)
       /\ ReduceKeepsBasis]_vars

\* C3 (amended): the basis is that average as long as no sell (cover) has
\* reduced the side since it was last flat; a sell or cover that leaves the
\* side open does not change the basis.
C3_BasisOverUninterruptedAdds ==
    [][/\ \A t \in Tickers :
            /\ ~hist'[t].long.reduced
                 => BasisIsAverage(portfolio'.positions[t].long,
                                   portfolio'.positions[t].long_cost_basis,
                                   hist'[t].long)
            /\ ~hist'[t].short.reduced
                 => BasisIsAverage(portfolio'.positions[t].short,
                                   portfolio'.positions[t].short_cost_basis,
                                   hist'[t].short)
       /\ ReduceKeepsBasis]_vars

\* a second buy at another price: the basis is a proper average
C3_Witness ==
    /\ last.action = "buy"
    /\ last.executed > 0
    /\ hist[last.ticker].long.q > last.executed
    /\ ~hist[last.ticker].long.reduced
    /\ portfolio.positions[last.ticker].long_cost_basis.d > 1


(***************************************************************************)
(* call_llm and LLMClient.generate_decision (signals/utils/llm.py,         *)
(* signals/llm/client.py)                                                  *)
(***************************************************************************)
MaxRetries == 3

\* float("nan"), which float(result["confidence"]) accepts
NaN == -8888

\* x < y on Python floats: every comparison with NaN is false
FLt(x, y) == x # NaN /\ y # NaN /\ x < y

\* Python min(a, b): b if b < a, else a
PyMin(a, b) == IF FLt(b, a) THEN b ELSE a

ErrorText == "Error in analysis, using default"

\* _create_default_response(MegaAgentDecision): every str field is the error
\* text, the int field 0, the float field 0.0
CreateDefaultResponse ==
    [action |-> ErrorText, quantity |-> 0, confidence |-> 0]

\* what one invocation of the reasoning collaborator can produce
LLMActions == {"", "buy", "short", "hold", "liquidate"}
LLMQuantities == {-1, 1, MaxShares + 1}
LLMConfidences == {-5, 90, 150, NaN}

\* kind: "raise" the provider call raises; "empty" a falsy result; "text" a
\* string that holds no JSON object; "bad" an object whose quantity or
\* confidence does not convert; "json" an object with the fields given
LLMOutcomes ==
    {[kind |-> k, action |-> "hold", quantity |-> 0, confidence |-> 0] :
        k \in {"raise", "empty", "text", "bad"}}
    \cup {[kind |-> "json", action |-> a, quantity |-> q, confidence |-> c] :
            a \in LLMActions, q \in LLMQuantities, c \in LLMConfidences}

\* the parsing of a truthy result into a MegaAgentDecision
ParseResponse(o) ==
    CASE o.kind = "text" ->
           [ok |-> TRUE,
            decision |-> [action |-> "hold", quantity |-> 0, confidence |-> 50]]
      [] o.kind = "json" ->
           [ok |-> TRUE,
            decision |-> [action |-> IF o.action = "" THEN "hold" ELSE o.action,
                          quantity |-> o.quantity,
                          confidence |-> o.confidence]]
      [] OTHER -> [ok |-> FALSE, decision |-> CreateDefaultResponse]

\* mutant: the retry loop has no bound
LoopContinues_Unbounded(next_attempt) == TRUE

\* for attempt in range(max_retries)
LoopContinues(next_attempt) == next_attempt < MaxRetries

\* one iteration of call_llm's retry loop, attempt number att (from 0), on
\* outcome o of the provider call
CallLLMStep(att, o) ==
    IF o.kind = "raise"
    THEN IF att = MaxRetries - 1
         THEN [status |-> "return", decision |-> CreateDefaultResponse,
               default |-> TRUE]
         ELSE [status |-> "continue", decision |-> CreateDefaultResponse,
               default |-> FALSE]
    ELSE IF o.kind = "empty"
    THEN [status |-> "continue", decision |-> CreateDefaultResponse,
          default |-> FALSE]
    ELSE IF ParseResponse(o).ok
    THEN [status |-> "return", decision |-> ParseResponse(o).decision,
          default |-> FALSE]
    ELSE IF att = MaxRetries - 1
    THEN [status |-> "return", decision |-> CreateDefaultResponse,
          default |-> TRUE]
    ELSE [status |-> "continue", decision |-> CreateDefaultResponse,
          default |-> FALSE]

(***************************************************************************)
(* RiskManager.analyze (trading_system/risk_manager.py)                    *)
(***************************************************************************)
\* mutant: the default signal grants the largest size
CreateDefaultSignal_Sized == [max_position_size |-> MaxShares]

\* _create_default_signal: max_position_size = 0
CreateDefaultSignal == [max_position_size |-> 0]

\* recommended_shares of _calculate_risk_metrics, as drawn by the model
RiskSizes == {0, MaxShares}

\* the signals of RiskManager.analyze: the default signal for a ticker with
\* an empty price frame or whose analysis raised (errs), else sizes[t]
RiskAnalyze(frames, errs, sizes) ==
    [t \in Tickers |->
        IF t \notin frames \/ t \in errs
        THEN CreateDefaultSignal
        ELSE [max_position_size |-> sizes[t]]]

(***************************************************************************)
(* MixGoAgent (trading_system/mixgo.py)                                    *)
(***************************************************************************)
\* mutant: the position size limit is not applied
ClampQuantity_Off(quantity, max_position_size) == quantity

\* if decision.quantity > max_position_size: decision.quantity = max_position_size
ClampQuantity(quantity, max_position_size) ==
    IF quantity > max_position_size THEN max_position_size ELSE quantity

\* mutant: a blocked position keeps its action
RiskBlocked_KeepsAction(decision) ==
    [decision EXCEPT !.quantity = 0, !.confidence = PyMin(@, 30)]

\* max_position_size == 0: the position is blocked
RiskBlocked(decision) ==
    [action |-> "hold", quantity |-> 0,
     confidence |-> PyMin(decision.confidence, 30)]

\* MixGoAgent._apply_risk_constraints(decision, ticker, all_signals)
ApplyRiskConstraints(decision, ticker, risk) ==
    IF ticker \notin DOMAIN risk \/ decision.action = "hold"
    THEN decision
    ELSE LET max_position_size == risk[ticker].max_position_size
             clamped == [decision EXCEPT
                           !.quantity = ClampQuantity(@, max_position_size)]
         IN  IF max_position_size = 0
             THEN RiskBlocked(clamped)
             ELSE IF 2 * clamped.quantity < max_position_size
             THEN [clamped EXCEPT !.confidence = PyMin(@, 70)]
             ELSE clamped

\* mutant: the pass withdraws every quantity
OptimizePortfolioDecisions_Resized(ds) ==
    [t \in DOMAIN ds |-> [ds[t] EXCEPT !.quantity = 0]]

\* MixGoAgent._optimize_portfolio_decisions: optimized_decisions = decisions.copy()
OptimizePortfolioDecisions(ds) == ds

\* TechnicalAnalystAgent.analyze calls get_prices outside any try
TechRaises(kinds) == \E t \in Tickers : kinds[t] = "raise"

\* TechnicalAnalystAgent.analyze skips a ticker whose price frame is empty
TechCovers(kinds) == {t \in Tickers : kinds[t] \in {"short", "data"}}

CurTicker == TickerOrder[idx]

OrchInit ==
    /\ LedgerStart({RZero})
    /\ TechIdle
    /\ RestIdle
    /\ pc = "fetch"
    /\ fetchKind \in [Tickers -> {"raise", "empty", "data"}]
    /\ OrchReset

\* analyze, step 1: the price frames; an exception of get_prices is caught
FetchPrices ==
    /\ pc = "fetch"
    /\ prices_dict' = {t \in Tickers : fetchKind[t] = "data"}
    /\ failed' = failed \cup {t \in Tickers : fetchKind[t] = "raise"}
    /\ pc' = "source"
    /\ UNCHANGED <<fetchKind, agent_signals, risk_signals, idx, attempt, calls,
                   proposed, decisions, returned, fellBack, raisedBy>>
    /\ UNCHANGED <<ledgerVars, techVars, restVars, allocation, summary>>

\* agent.analyze(...) of a Signal Source such as BillAckmanAgent returns its signals
SignalSourceReturns ==
    /\ pc = "source"
    /\ agent_signals' = agent_signals @@ ("bill_ackman" :> Tickers)
    /\ pc' = "technical"
    /\ UNCHANGED <<fetchKind, prices_dict, risk_signals, idx, attempt, calls,
                   proposed, decisions, returned, failed, fellBack, raisedBy>>
    /\ UNCHANGED <<ledgerVars, techVars, restVars, allocation, summary>>

\* agent.analyze(...) raises while it processes ticker t: nothing catches it
SignalSourceRaises ==
    /\ pc = "source"
    /\ \E t \in Tickers : failed' = failed \cup {t}
    /\ pc' = "raised"
    /\ raisedBy' = "signal_source"
    /\ UNCHANGED <<fetchKind, prices_dict, agent_signals, risk_signals, idx,
                   attempt, calls, proposed, decisions, returned, fellBack>>
    /\ UNCHANGED <<ledgerVars, techVars, restVars, allocation, summary>>

\* agent.analyze(...) of the TechnicalAnalystAgent
TechnicalAnalyze ==
    /\ pc = "technical"
    /\ IF TechRaises(fetchKind)
       THEN /\ pc' = "raised"
            /\ raisedBy' = "technical_analyst"
            /\ UNCHANGED agent_signals
       ELSE /\ pc' = "risk"
            /\ agent_signals' =
                 agent_signals @@ ("technical_analyst" :> TechCovers(fetchKind))
            /\ UNCHANGED raisedBy
    /\ UNCHANGED <<fetchKind, prices_dict, risk_signals, idx, attempt, calls,
                   proposed, decisions, returned, failed, fellBack>>
    /\ UNCHANGED <<ledgerVars, techVars, restVars, allocation, summary>>

\* self.risk_manager.analyze(tickers, prices_dict, portfolio, end_date)
RiskManagerAnalyze ==
    /\ pc = "risk"
    /\ \E errs \in SUBSET prices_dict, sizes \in [Tickers -> RiskSizes] :
          /\ risk_signals' = RiskAnalyze(prices_dict, errs, sizes)
          /\ failed' = failed \cup errs
    /\ pc' = "llm"
    /\ UNCHANGED <<fetchKind, prices_dict, agent_signals, idx, attempt, calls,
                   proposed, decisions, returned, fellBack, raisedBy>>
    /\ UNCHANGED <<ledgerVars, techVars, restVars, allocation, summary>>

\* one attempt of call_llm for the current ticker
LLMAttempt ==
    /\ pc = "llm"
    /\ \E o \in LLMOutcomes :
         LET r == CallLLMStep(attempt, o)
             out == IF r.status = "continue" /\ ~LoopContinues(attempt + 1)
                    THEN [status |-> "return",
                          decision |-> CreateDefaultResponse, default |-> TRUE]
                    ELSE r
         IN  /\ calls' = calls + 1
             /\ failed' = IF o.kind = "raise" THEN failed \cup {CurTicker}
                          ELSE failed
             /\ IF out.status = "return"
                THEN /\ proposed' = proposed @@ (CurTicker :> out.decision)
                     /\ fellBack' = IF out.default
                                    THEN fellBack \cup {CurTicker}
                                    ELSE fellBack
                     /\ pc' = "clamp"
                     /\ UNCHANGED attempt
                ELSE /\ attempt' = attempt + 1
                     /\ UNCHANGED <<proposed, fellBack, pc>>
    /\ UNCHANGED <<fetchKind, prices_dict, agent_signals, risk_signals, idx,
                   decisions, returned, raisedBy>>
    /\ UNCHANGED <<ledgerVars, techVars, restVars, allocation, summary>>

\* decision = self._apply_risk_constraints(...); decisions[ticker] = decision
ApplyRisk ==
    /\ pc = "clamp"
    /\ decisions' = decisions @@
         (CurTicker :> ApplyRiskConstraints(proposed[CurTicker], CurTicker,
                                            risk_signals))
    /\ idx' = idx + 1
    /\ attempt' = 0
    /\ calls' = 0
    /\ pc' = IF idx = Len(TickerOrder) THEN "optimize" ELSE "llm"
    /\ UNCHANGED <<fetchKind, prices_dict, agent_signals, risk_signals,
                   proposed, returned, failed, fellBack, raisedBy>>
    /\ UNCHANGED <<ledgerVars, techVars, restVars, allocation, summary>>

\* RiskManager.__init__ default: at most 5% of the portfolio in one position
max_position_pct == R(1, 20)

\* MixGoAgent._calculate_portfolio_value as the class binds it: the second
\* definition of that name (cash plus long minus short positions at cost)
\* replaces the first one, which had a floor of 10000
RECURSIVE PositionValue(_, _)
PositionValue(positions, i) ==
    IF i > Len(TickerOrder) THEN RZero
    ELSE LET ticker_pos == positions[TickerOrder[i]]
             long_value == RMul(RInt(ticker_pos.long), ticker_pos.long_cost_basis)
             short_value == RMul(RInt(ticker_pos.short), ticker_pos.short_cost_basis)
         IN  RAdd(RSub(long_value, short_value), PositionValue(positions, i + 1))

MixGoPortfolioValue(pf) == RAdd(pf.cash, PositionValue(pf.positions, 1))

\* decisions that are not hold and ask for a positive quantity
ActiveDecisions(trading_decisions) ==
    {t \in DOMAIN trading_decisions :
        trading_decisions[t].action # "hold" /\ trading_decisions[t].quantity > 0}

\* a float that is NaN, among rationals
RNaN == [n |-> 0, d |-> 0]

\* confidence / 100.0 * risk_adjustment; NaN stays NaN
RiskScore(decision) ==
    IF decision.confidence = NaN THEN RNaN ELSE R(decision.confidence, 100)

\* the running sum of the scores over the tickers i.. of the active set
RECURSIVE TotalRiskScore(_, _, _)
TotalRiskScore(trading_decisions, active, i) ==
    IF i > Len(TickerOrder) THEN RZero
    ELSE LET rest == TotalRiskScore(trading_decisions, active, i + 1)
             t == TickerOrder[i]
         IN  IF t \notin active THEN rest
             ELSE IF rest = RNaN \/ RiskScore(trading_decisions[t]) = RNaN THEN RNaN
             ELSE RAdd(RiskScore(trading_decisions[t]), rest)

\* RiskManager.optimize_portfolio_allocation: nothing is allocated unless the
\* total score compares greater than 0 (a NaN total does not)
OptimizePortfolioAllocation(trading_decisions, portfolio_value) ==
    LET active == ActiveDecisions(trading_decisions)
        total_risk_score == TotalRiskScore(trading_decisions, active, 1)
    IN  IF active = {} \/ total_risk_score = RNaN \/ ~RLt(RZero, total_risk_score)
        THEN NoDecisions
        ELSE [t \in active |->
                LET allocation_pct ==
                      RMin(RDiv(RiskScore(trading_decisions[t]), total_risk_score),
                           max_position_pct)
                IN  [allocation_pct |-> allocation_pct,
                     allocation_value |-> RMul(portfolio_value, allocation_pct),
                     risk_score |-> RiskScore(trading_decisions[t]),
                     original_confidence |-> trading_decisions[t].confidence]]

\* RiskManager._calculate_portfolio_value(portfolio): cash plus every side at
\* its cost basis, never less than 10000
RiskPortfolioValue(pf) ==
    LET side(t) == RAdd(RMul(RInt(pf.positions[t].long),
                             pf.positions[t].long_cost_basis),
                        RMul(RInt(pf.positions[t].short),
                             pf.positions[t].short_cost_basis))
        total_value == RAdd(pf.cash, RAdd(side("T1"), side("T2")))
    IN  RMax(total_value, RInt(10000))

\* the largest share that one side of one position has in portfolio_value,
\* over the tickers i.. (the loop of get_portfolio_summary)
RECURSIVE LargestPositionPct(_, _, _)
LargestPositionPct(pf, portfolio_value, i) ==
    IF i > Len(TickerOrder) THEN RZero
    ELSE LET position == pf.positions[TickerOrder[i]]
             pct(value) == IF RLt(RZero, portfolio_value)
                           THEN RDiv(value, portfolio_value) ELSE RZero
             long_pct == IF position.long # 0 /\ position.long_cost_basis # RZero
                         THEN pct(RMul(RInt(position.long),
                                       position.long_cost_basis))
                         ELSE RZero
             short_pct == IF position.short # 0 /\ position.short_cost_basis # RZero
                          THEN pct(RMul(RInt(position.short),
                                        position.short_cost_basis))
                          ELSE RZero
         IN  RMax(RMax(long_pct, short_pct),
                  LargestPositionPct(pf, portfolio_value, i + 1))

\* RiskManager.get_portfolio_summary(portfolio): the fields the claims read
GetPortfolioSummary(pf) ==
    LET portfolio_value == RiskPortfolioValue(pf)
        largest_position_pct == LargestPositionPct(pf, portfolio_value, 1)
    IN  [total_value |-> portfolio_value,
         largest_position_pct |-> largest_position_pct,
         within_risk_limits |-> RLe(largest_position_pct, max_position_pct)]

\* analyze, step 4: the portfolio-level pass, and the return
OptimizeAndReturn ==
    /\ pc = "optimize"
    /\ allocation' = OptimizePortfolioAllocation(decisions,
                                                 MixGoPortfolioValue(portfolio))
    /\ returned' = OptimizePortfolioDecisions(decisions)
    /\ summary' = GetPortfolioSummary(portfolio)
    /\ pc' = "returned"
    /\ UNCHANGED <<fetchKind, prices_dict, agent_signals, risk_signals, idx,
                   attempt, calls, proposed, decisions, failed, fellBack,
                   raisedBy>>
    /\ UNCHANGED <<ledgerVars, techVars, restVars>>

OrchNext ==
    \/ FetchPrices
    \/ SignalSourceReturns
    \/ SignalSourceRaises
    \/ TechnicalAnalyze
    \/ RiskManagerAnalyze
    \/ LLMAttempt
    \/ ApplyRisk
    \/ OptimizeAndReturn

OrchSpec == OrchInit /\ [][OrchNext]_vars


(***************************************************************************)
(* TechnicalAnalystAgent (trading_system/technical_analyst.py)             *)
(* Weights and sub-strategy confidences are counted in hundredths.         *)
(***************************************************************************)
\* self.strategy_weights
StrategyWeights ==
    [trend |-> 25, mean_reversion |-> 20, momentum |-> 25, volatility |-> 15,
     stat_arb |-> 15]

Strategies == DOMAIN StrategyWeights

\* a sub-strategy's result when its computation raised
StrategyError == [signal |-> "neutral", confidence |-> 30]

\* a sub-strategy's result when neither of its directional conditions holds
StrategyNeutral == [signal |-> "neutral", confidence |-> 50]

\* _calculate_trend_signals: the EMA comparison needs no minimum length; the
\* confidence of a directional result is ADX/100, which may be NaN
TrendResults ==
    {StrategyError, StrategyNeutral}
    \cup {[signal |-> s, confidence |-> c] :
            s \in {"bullish", "bearish"}, c \in {25, 100, NaN}}

\* the other four sub-strategies on a series long enough for their windows
DirectionalResults ==
    {StrategyError, StrategyNeutral}
    \cup {[signal |-> s, confidence |-> 100] : s \in {"bullish", "bearish"}}

\* the same four on a series shorter than their rolling windows: every
\* windowed value is null and replaced by its neutral default
ShortResults == {StrategyError, StrategyNeutral}

\* what the four windowed sub-strategies can yield on a frame of that kind
WindowedResults(kind) ==
    IF kind = "short" THEN ShortResults ELSE DirectionalResults

\* the five sub-strategy results a price frame of the given kind can yield
StrategyResults(kind) ==
    {[trend |-> a, mean_reversion |-> b, momentum |-> c, volatility |-> d,
      stat_arb |-> e] :
        a \in TrendResults, b \in WindowedResults(kind),
        c \in WindowedResults(kind), d \in WindowedResults(kind),
        e \in WindowedResults(kind)}

\* mutant: everything that is not bearish counts as bullish
SignalValue_NeutralCounts(signal) == IF signal = "bearish" THEN -1 ELSE 1

\* signal_values.get(signal["signal"], 0)
SignalValue(signal) ==
    CASE signal = "bullish" -> 1
      [] signal = "bearish" -> -1
      [] OTHER -> 0

\* NaN becomes 0.5, then the confidence is clamped to [0, 1]
CleanConfidence(c) == IF c = NaN THEN 50 ELSE Max(0, Min(c, 100))

\* weighted_sum, in 1/10000
WeightedSum(signals) ==
    LET term(s) == SignalValue(signals[s].signal) * StrategyWeights[s]
                     * CleanConfidence(signals[s].confidence)
    IN  term("trend") + term("mean_reversion") + term("momentum")
          + term("volatility") + term("stat_arb")

\* total_confidence, in 1/10000
TotalConfidence(signals) ==
    LET term(s) == StrategyWeights[s] * CleanConfidence(signals[s].confidence)
    IN  term("trend") + term("mean_reversion") + term("momentum")
          + term("volatility") + term("stat_arb")

\* final_score = weighted_sum / total_confidence, 0 when that is not positive
FinalScore(signals) ==
    IF TotalConfidence(signals) > 0
    THEN R(WeightedSum(signals), TotalConfidence(signals))
    ELSE RZero

\* _weighted_signal_combination(signals): signal and confidence in [0, 1]
WeightedSignalCombination(signals) ==
    LET final_score == FinalScore(signals)
    IN  [signal |-> IF RLt(R(1, 5), final_score) THEN "bullish"
                    ELSE IF RLt(final_score, R(-1, 5)) THEN "bearish"
                    ELSE "neutral",
         confidence |-> RMin(R(Abs(final_score.n), final_score.d), RInt(1))]

\* int(round(x)) for a rational x >= 0: Python rounds halves to even
RoundHalfEven(x) ==
    LET q == x.n \div x.d
        r == x.n % x.d
    IN  IF 2 * r < x.d THEN q
        ELSE IF 2 * r > x.d THEN q + 1
        ELSE IF q % 2 = 0 THEN q ELSE q + 1

\* _safe_round(value) on the combined confidence, which the combination has
\* already cleared of None/NaN/inf: int(round(float(value)))
SafeRound(value) == RoundHalfEven(value)

\* the AnalystSignal analyze stores for a ticker with sub-strategy results
TechSignal(signals) ==
    LET combined_signal == WeightedSignalCombination(signals)
    IN  [signal |-> combined_signal.signal,
         confidence |-> SafeRound(RMul(combined_signal.confidence, RInt(100)))]

TechTicker == TickerOrder[techIdx]

\* for ticker in tickers: ... return signals
TechAdvance ==
    /\ techIdx' = techIdx + 1
    /\ techStatus' = IF techIdx = Len(TickerOrder) THEN "returned"
                     ELSE "running"

TechInit ==
    /\ LedgerStart({RZero})
    /\ pc = "idle"
    /\ fetchKind \in [Tickers -> {"raise", "empty", "short", "data"}]
    /\ OrchReset
    /\ techStatus = "running"
    /\ TechReset
    /\ RestIdle

\* data_fetcher.get_prices(...) raises: analyze has no handler around it
TechFetchRaises ==
    /\ techStatus = "running"
    /\ fetchKind[TechTicker] = "raise"
    /\ techStatus' = "raised"
    /\ UNCHANGED <<techIdx, techSignals>>
    /\ UNCHANGED <<ledgerVars, orchVars, allocation, summary, restVars>>

\* if prices_df.is_empty(): continue
TechSkipEmpty ==
    /\ techStatus = "running"
    /\ fetchKind[TechTicker] = "empty"
    /\ TechAdvance
    /\ UNCHANGED techSignals
    /\ UNCHANGED <<ledgerVars, orchVars, allocation, summary, restVars>>

\* the five sub-strategies, their combination, signals[ticker] = AnalystSignal(...)
TechAnalyzeTicker ==
    /\ techStatus = "running"
    /\ fetchKind[TechTicker] \in {"short", "data"}
    /\ \E signals \in StrategyResults(fetchKind[TechTicker]) :
          techSignals' = techSignals @@ (TechTicker :> TechSignal(signals))
    /\ TechAdvance
    /\ UNCHANGED <<ledgerVars, orchVars, allocation, summary, restVars>>

TechNext ==
    \/ TechFetchRaises
    \/ TechSkipEmpty
    \/ TechAnalyzeTicker

TechSpec == TechInit /\ [][TechNext]_vars


(***************************************************************************)
(* Claims about MixGoAgent.analyze, call_llm and the technical analyst     *)
(***************************************************************************)
\* x <= y on Python floats
FLe(x, y) == x # NaN /\ y # NaN /\ x <= y

MaxPositionSize(t) == risk_signals[t].max_position_size

\* C4: for every ticker with a Risk Manager signal, a decision whose action
\* is not hold (as proposed, or as it leaves the clamp) leaves
\* _apply_risk_constraints with quantity <= that ticker's max_position_size,
\* whatever quantity the reasoning collaborator proposed.
C4_NonHoldQuantityWithinLimit ==
    \A t \in DOMAIN decisions :
        (t \in DOMAIN risk_signals
           /\ (proposed[t].action # "hold" \/ decisions[t].action # "hold"))
        => decisions[t].quantity <= MaxPositionSize(t)

\* C4 witness: a non-hold proposal above a positive limit was cut to the limit
C4_Witness ==
    \E t \in DOMAIN decisions :
        /\ proposed[t].action = "buy"
        /\ MaxPositionSize(t) > 0
        /\ proposed[t].quantity > MaxPositionSize(t)
        /\ decisions[t].action = "buy"
        /\ decisions[t].quantity = MaxPositionSize(t)

\* C5 as stated: whenever max_position_size is 0 the returned decision has
\* action = hold, quantity = 0 and confidence <= 30, whatever was proposed.
C5_ZeroLimitAlwaysHoldZeroThirty ==
    \A t \in DOMAIN returned :
        MaxPositionSize(t) = 0
        => /\ returned[t].action = "hold"
           /\ returned[t].quantity = 0
           /\ FLe(returned[t].confidence, 30)

\* C5, amended: whenever max_position_size is 0 the returned decision has
\* action = hold; if the proposed action was not hold, its quantity is 0 and
\* its confidence is min(proposed confidence, 30.0), so never above 30; a
\* proposed hold is returned as proposed.
C5_ZeroLimitBlocksNonHold ==
    \A t \in DOMAIN returned :
        MaxPositionSize(t) = 0
        => /\ returned[t].action = "hold"
           /\ IF proposed[t].action = "hold"
              THEN returned[t] = proposed[t]
              ELSE /\ returned[t].quantity = 0
                   /\ returned[t].confidence = PyMin(proposed[t].confidence, 30)
                   /\ ~FLt(30, returned[t].confidence)

\* C5 witness: a confident buy for a ticker whose limit is 0 came back as
\* hold, 0, 30
C5_Witness ==
    \E t \in DOMAIN returned :
        /\ MaxPositionSize(t) = 0
        /\ proposed[t] = [action |-> "buy", quantity |-> MaxShares + 1,
                          confidence |-> 90]
        /\ returned[t] = [action |-> "hold", quantity |-> 0, confidence |-> 30]

\* C6 as stated: when every attempt to obtain a parseable decision fails,
\* the decision call_llm produces for the ticker is hold, 0, 50.
C6_FallbackIsHoldZeroFifty ==
    \A t \in fellBack :
        t \in DOMAIN proposed
        => proposed[t] = [action |-> "hold", quantity |-> 0, confidence |-> 50]

\* C7: call_llm invokes the reasoning collaborator at most max_retries times
\* per decision; once that many invocations have been made it has returned a
\* decision, whatever mix of exceptions, empty and unparseable responses it
\* met; it never raises.
C7_BoundedRetriesThenDecision ==
    /\ calls <= MaxRetries
    /\ pc = "llm" => calls < MaxRetries
    /\ calls = MaxRetries => (pc = "clamp" /\ CurTicker \in DOMAIN proposed)
    /\ raisedBy # "llm"

\* C7 witness: max_retries failing invocations, then the default decision
C7_Witness ==
    /\ pc = "clamp"
    /\ calls = MaxRetries
    /\ CurTicker \in fellBack
    /\ proposed[CurTicker] = CreateDefaultResponse

\* C8 as stated: once analyze has ended, after a failure while it processed
\* some ticker, a decision has been returned for every other ticker.
C8_FailureDoesNotAbortBatch ==
    (pc \in {"returned", "raised"} /\ failed # {})
    => \A t \in Tickers \ failed : t \in DOMAIN returned

\* C9 as stated: TechnicalAnalystAgent.analyze never raises and returns a
\* signal for every requested ticker; for a ticker whose price series is
\* empty or too short that signal is neutral with the default confidence 50.
C9_FailsSoftForEveryTicker ==
    /\ techStatus # "raised"
    /\ techStatus = "returned"
       => \A t \in Tickers :
            /\ t \in DOMAIN techSignals
            /\ fetchKind[t] \in {"empty", "short"}
               => techSignals[t] = [signal |-> "neutral", confidence |-> 50]

ValidActions == {"buy", "sell", "short", "cover", "hold"}

\* C10 as stated: every decision analyze returns has an action among buy,
\* sell, short, cover, hold, a quantity >= 0, a confidence in [0, 100], and,
\* when its action is not hold, a quantity within the risk ceiling.
C10_ReturnedDecisionsFitSchema ==
    \A t \in DOMAIN returned :
        /\ returned[t].action \in ValidActions
        /\ returned[t].quantity >= 0
        /\ FLe(0, returned[t].confidence)
        /\ FLe(returned[t].confidence, 100)
        /\ returned[t].action # "hold"
           => returned[t].quantity <= MaxPositionSize(t)


(***************************************************************************)
(* Further claims about the ledger                                         *)
(***************************************************************************)
\* floor of a rational with positive denominator
RFloor(x) == x.n \div x.d

\* the position of the traded ticker before and after the step
PosBefore == portfolio.positions[last'.ticker]

PosAfter == portfolio'.positions[last'.ticker]

\* C11: with cash c >= 0 and price p > 0 a buy of q shares executes exactly
\* min(q, floor(c/p)) shares, and a short of q shares under a margin ratio
\* m > 0 executes exactly min(q, floor(c/(p*m))) shares; the call returns.
C11_InsufficientFundsAreClipped ==
    [][NonNeg(portfolio.cash) =>
         /\ last'.action = "buy"
            => last'.executed =
                 Min(last'.quantity,
                     RFloor(RDiv(portfolio.cash, RInt(last'.price))))
         /\ (last'.action = "short" /\ RLt(RZero, portfolio.margin_requirement))
            => last'.executed =
                 Min(last'.quantity,
                     RFloor(RDiv(portfolio.cash,
                                 RMul(RInt(last'.price),
                                      portfolio.margin_requirement))))]_vars

\* C11 witness: a short clipped to the quantity the margin allows
C11_Witness ==
    /\ last.action = "short"
    /\ RLt(RZero, portfolio.margin_requirement)
    /\ last.executed > 0
    /\ last.executed < last.quantity


\* C12: a sell of q shares at price p executes q' = min(q, long) shares and,
\* when q' > 0, decreases long by q', increases cash by q'*p and increases
\* realized_gains[ticker].long by (p - long_cost_basis)*q', with the basis
\* held before the sell.
C12_SellSettlesAtHeldBasis ==
    [][last'.action = "sell" =>
         LET q == last'.executed
             p == RInt(last'.price)
             t == last'.ticker
         IN  /\ q = Min(last'.quantity, PosBefore.long)
             /\ q > 0 =>
                  /\ PosAfter.long = PosBefore.long - q
                  /\ portfolio'.cash = RAdd(portfolio.cash, RMul(RInt(q), p))
                  /\ portfolio'.realized_gains[t].long =
                       RAdd(portfolio.realized_gains[t].long,
                            RMul(RSub(p, PosBefore.long_cost_basis), RInt(q)))
             /\ q = 0 => portfolio' = portfolio]_vars

\* C12 witness: part of a long position sold above its basis
C12_Witness ==
    /\ last.action = "sell"
    /\ last.executed > 0
    /\ portfolio.positions[last.ticker].long > 0
    /\ RLt(RZero, portfolio.realized_gains[last.ticker].long)

\* C13: a short that executes q' shares at price p under margin ratio m
\* increases short by q', the position's short_margin_used by q'*p*m and cash
\* by q'*p - q'*p*m.
C13_ShortPostsMargin ==
    [][last'.action = "short" =>
         LET q == last'.executed
             proceeds == RMul(RInt(q), RInt(last'.price))
             margin == RMul(proceeds, portfolio.margin_requirement)
         IN  /\ PosAfter.short = PosBefore.short + q
             /\ PosAfter.short_margin_used =
                  RAdd(PosBefore.short_margin_used, margin)
             /\ portfolio'.cash = RAdd(portfolio.cash, RSub(proceeds, margin))]_vars

\* C13 witness: a short executed under a margin ratio of one half
C13_Witness ==
    /\ last.action = "short"
    /\ last.executed > 0
    /\ portfolio.margin_requirement = R(1, 2)
    /\ RLt(RZero, portfolio.positions[last.ticker].short_margin_used)

\* C14: a cover of q shares at price p executes q' = min(q, short) shares,
\* releases margin_released = (q'/short) * short_margin_used, changes cash by
\* margin_released - q'*p and increases realized_gains[ticker].short by
\* (short_cost_basis - p)*q'; after a cover of the whole short side
\* short_margin_used is 0.
C14_CoverReleasesMarginInProportion ==
    [][last'.action = "cover" =>
         LET q == last'.executed
             p == RInt(last'.price)
             t == last'.ticker
             margin_released ==
                RMul(R(q, PosBefore.short), PosBefore.short_margin_used)
         IN  /\ q = Min(last'.quantity, PosBefore.short)
             /\ q > 0 =>
                  /\ PosAfter.short = PosBefore.short - q
                  /\ PosAfter.short_margin_used =
                       RSub(PosBefore.short_margin_used, margin_released)
                  /\ portfolio'.cash =
                       RAdd(portfolio.cash,
                            RSub(margin_released, RMul(RInt(q), p)))
                  /\ portfolio'.realized_gains[t].short =
                       RAdd(portfolio.realized_gains[t].short,
                            RMul(RSub(PosBefore.short_cost_basis, p), RInt(q)))
             /\ PosAfter.short = 0 => PosAfter.short_margin_used = RZero]_vars

\* C14 witness: part of a margined short position covered
C14_Witness ==
    /\ last.action = "cover"
    /\ last.executed > 0
    /\ portfolio.positions[last.ticker].short > 0
    /\ RLt(RZero, portfolio.positions[last.ticker].short_margin_used)

\* C15: in every reachable ledger state and for every ticker, long = 0
\* implies long_cost_basis = 0, and short = 0 implies short_cost_basis = 0
\* and short_margin_used = 0.
C15_FlatSideHasNoBasis ==
    \A t \in Tickers :
        LET position == portfolio.positions[t]
        IN  /\ position.long = 0 => position.long_cost_basis = RZero
            /\ position.short = 0 =>
                 /\ position.short_cost_basis = RZero
                 /\ position.short_margin_used = RZero

\* C15 witness: a margined short position covered in full
C15_Witness ==
    /\ last.action = "cover"
    /\ last.executed > 0
    /\ RLt(RZero, portfolio.margin_requirement)
    /\ portfolio.positions[last.ticker].short = 0
    /\ portfolio.positions[last.ticker].short_cost_basis = RZero


(***************************************************************************)
(* RiskManager position sizing (trading_system/risk_manager.py)            *)
(***************************************************************************)
\* RiskManager.__init__ defaults
max_risk_per_trade == R(1, 50)

kelly_multiplier == R(1, 4)

\* the conservative default of the Kelly computation, 0.02
KellyDefault == R(1, 50)

\* Python "x or default" on a number: 0 and 0.0 are falsy
Or(x, default) == IF x = RZero THEN default ELSE x

\* mutant: the fraction is not capped
KellyCap_Uncapped(kelly) == RMax(RZero, kelly)

\* kelly_fraction = max(0.0, min(kelly_fraction, 0.20))
KellyCap(kelly) == RMax(RZero, RMin(kelly, R(1, 5)))

\* RiskManager._calculate_kelly_fraction_polars(price_df, volatility); df
\* gives the frame's height, the number of returns left after drop_nulls,
\* the numbers of positive and negative returns and their mean sizes
KellyFraction(df, volatility) ==
    IF df.raises THEN KellyDefault
    ELSE IF df.height < 30 THEN KellyDefault
    ELSE IF df.returns < 10 THEN KellyDefault
    ELSE IF df.positive = 0 \/ df.negative = 0 THEN KellyDefault
    ELSE IF df.avg_loss = RZero \/ df.avg_win = RZero THEN KellyDefault
    ELSE LET win_probability == R(df.positive, df.returns)
             win_loss_ratio == RDiv(df.avg_win, df.avg_loss)
             kelly == RDiv(RSub(RMul(win_probability, win_loss_ratio),
                                RSub(RInt(1), win_probability)),
                           win_loss_ratio)
             capped == KellyCap(kelly)
         IN  IF RLt(R(1, 2), volatility)
             THEN RMul(capped, R(1, 2))
             ELSE capped

Min3(a, b, c) == Min(a, Min(b, c))

\* RiskManager._calculate_risk_metrics(...): the three share ceilings and
\* their minimum
RiskMetrics(current_price0, atr0, kelly_fraction0, portfolio_value0) ==
    LET current_price == RMax(R(1, 100), Or(current_price0, RInt(100)))
        atr == RMax(R(1, 100), Or(atr0, RMul(current_price, R(1, 50))))
        kelly == RMax(RZero, RMin(Or(kelly_fraction0, R(1, 50)), RInt(1)))
        portfolio_value == RMax(RInt(1000), Or(portfolio_value0, RInt(10000)))
        kelly_adjusted == RMul(kelly, kelly_multiplier)
        max_shares_kelly ==
            Trunc(RDiv(RMul(portfolio_value, kelly_adjusted), current_price))
        risk_per_share == RMax(RMul(atr, RInt(2)), RMul(current_price, R(1, 50)))
        max_shares_risk ==
            Trunc(RDiv(RMul(portfolio_value, max_risk_per_trade), risk_per_share))
        max_shares_concentration ==
            Trunc(RDiv(RMul(portfolio_value, max_position_pct), current_price))
    IN  [kelly_adjusted |-> kelly_adjusted,
         max_shares_kelly |-> max_shares_kelly,
         max_shares_risk |-> max_shares_risk,
         max_shares_concentration |-> max_shares_concentration,
         recommended_shares |->
            Max(0, Min3(max_shares_kelly, max_shares_risk,
                        max_shares_concentration))]

\* the price frames the sizing is run on
ReturnCounts ==
    {<<29, 28, 14, 14>>, <<30, 9, 5, 4>>, <<30, 10, 0, 10>>, <<30, 10, 10, 0>>,
     <<30, 10, 0, 0>>, <<30, 10, 3, 7>>, <<30, 10, 5, 4>>, <<30, 10, 7, 3>>}

PriceFrames ==
    {[height |-> c[1], returns |-> c[2], positive |-> c[3], negative |-> c[4],
      avg_win |-> IF c[3] = 0 THEN RZero ELSE w,
      avg_loss |-> IF c[4] = 0 THEN RZero ELSE l,
      volatility |-> v, current_price |-> p, atr |-> a, raises |-> x] :
        c \in ReturnCounts, w \in {R(1, 100), R(1, 80), R(3, 100)},
        l \in {R(1, 100), R(3, 100)}, v \in {R(3, 10), R(3, 5)},
        p \in {RInt(0), RInt(30), RInt(100)},
        a \in {RInt(0), RInt(1), RInt(50)}, x \in BOOLEAN}

RiskCapitals == {3000, 100000}

RiskInit ==
    /\ RunIdle
    /\ \E c \in RiskCapitals : portfolio = NewPortfolio(c, RZero)
    /\ last = NoTrade
    /\ hist = [t \in Tickers |-> [long |-> NoHist, short |-> NoHist]]
    /\ nTrades = 0
    /\ OrchIdle
    /\ TechIdle
    /\ PerfIdle
    /\ EnsIdle
    /\ riskPc = "kelly"
    /\ price_df \in PriceFrames
    /\ kelly_fraction = NoKelly
    /\ risk_metrics = NoMetrics

\* kelly_fraction = self._calculate_kelly_fraction_polars(price_df, volatility)
CalculateKelly ==
    /\ riskPc = "kelly"
    /\ kelly_fraction' = KellyFraction(price_df, price_df.volatility)
    /\ riskPc' = "metrics"
    /\ UNCHANGED <<price_df, risk_metrics>>
    /\ UNCHANGED <<runVars, ledgerVars, orchVars, techVars, allocation, summary,
                   perfVars, ensVars>>

\* risk_metrics = self._calculate_risk_metrics(...)
CalculateRiskMetrics ==
    /\ riskPc = "metrics"
    /\ risk_metrics' = RiskMetrics(price_df.current_price, price_df.atr,
                                   kelly_fraction, RiskPortfolioValue(portfolio))
    /\ riskPc' = "done"
    /\ UNCHANGED <<price_df, kelly_fraction>>
    /\ UNCHANGED <<runVars, ledgerVars, orchVars, techVars, allocation, summary,
                   perfVars, ensVars>>

RiskNext == CalculateKelly \/ CalculateRiskMetrics

RiskSpec == RiskInit /\ [][RiskNext]_vars

\* C16 as stated: recommended_shares is the minimum of
\* floor(portfolio_value*kelly*kelly_multiplier/price),
\* floor(portfolio_value*max_risk_per_trade/max(2*ATR, 0.02*price)) and
\* floor(portfolio_value*max_position_pct/price), for every Kelly fraction the
\* Kelly computation returns, 0 included (checked where price and ATR are
\* positive).
C16_RecommendedIsMinOfCeilings ==
    (riskPc = "done" /\ RLt(RZero, price_df.current_price)
       /\ RLt(RZero, price_df.atr))
    => LET pv == RiskPortfolioValue(portfolio)
           price == price_df.current_price
       IN  risk_metrics.recommended_shares =
             Min3(RFloor(RDiv(RMul(pv, RMul(kelly_fraction, kelly_multiplier)),
                              price)),
                  RFloor(RDiv(RMul(pv, max_risk_per_trade),
                              RMax(RMul(RInt(2), price_df.atr),
                                   RMul(R(1, 50), price)))),
                  RFloor(RDiv(RMul(pv, max_position_pct), price)))

\* C17: the Kelly fraction is in [0, 0.20] for every price series and
\* volatility, and is exactly 0.02 when the series has fewer than 30 bars,
\* fewer than 10 valid returns, or returns that are all of the same sign.
C17_KellyWithinBounds ==
    riskPc \in {"metrics", "done"}
    => /\ RLe(RZero, kelly_fraction)
       /\ RLe(kelly_fraction, R(1, 5))
       /\ (price_df.height < 30 \/ price_df.returns < 10
             \/ price_df.positive = 0 \/ price_df.negative = 0)
          => kelly_fraction = R(1, 50)

\* C17 witness: a full-length series with wins and losses whose raw Kelly
\* fraction exceeds the cap
C17_Witness ==
    /\ riskPc = "metrics"
    /\ ~price_df.raises
    /\ price_df.height >= 30
    /\ price_df.positive > 0
    /\ price_df.negative > 0
    /\ kelly_fraction = R(1, 5)


(***************************************************************************)
(* _weighted_signal_combination on its own                                 *)
(***************************************************************************)
\* the sub-strategy results the combination is called with; confidences in
\* hundredths
EnsembleResults ==
    {[signal |-> s, confidence |-> c] :
        s \in {"bullish", "bearish", "neutral"}, c \in {0, 100, NaN}}

EnsembleInit ==
    /\ RunIdle
    /\ LedgerStart({RZero})
    /\ OrchIdle
    /\ TechIdle
    /\ RiskIdle
    /\ PerfIdle
    /\ ensPc = "call"
    /\ ensSignals \in [Strategies -> EnsembleResults]
    /\ ensCombined = NoCombined

\* combined_signal = self._weighted_signal_combination(signals)
CombineSignals ==
    /\ ensPc = "call"
    /\ ensCombined' = WeightedSignalCombination(ensSignals)
    /\ ensPc' = "done"
    /\ UNCHANGED ensSignals
    /\ UNCHANGED <<runVars, ledgerVars, orchVars, techVars, allocation, summary,
                   riskVars,
                   perfVars>>

EnsembleNext == CombineSignals

EnsembleSpec == EnsembleInit /\ [][EnsembleNext]_vars

\* C18: the combination returns bullish only if final_score > 0.2, bearish
\* only if final_score < -0.2 and neutral otherwise, where final_score =
\* sum(weight*value*confidence) / sum(weight*confidence), 0 when the
\* denominator is 0 (confidence as the function reads it: a NaN counts 0.5,
\* the rest is clamped to [0, 1]); the result is neutral whenever all five
\* sub-strategies report neutral.
C18_EnsembleFollowsScore ==
    ensPc = "done" =>
      LET value(s) == IF ensSignals[s].signal = "bullish" THEN 1
                      ELSE IF ensSignals[s].signal = "bearish" THEN -1 ELSE 0
          conf(s) == IF ensSignals[s].confidence = NaN THEN 50
                     ELSE IF ensSignals[s].confidence > 100 THEN 100
                     ELSE IF ensSignals[s].confidence < 0 THEN 0
                     ELSE ensSignals[s].confidence
          num == 25 * value("trend") * conf("trend")
                   + 20 * value("mean_reversion") * conf("mean_reversion")
                   + 25 * value("momentum") * conf("momentum")
                   + 15 * value("volatility") * conf("volatility")
                   + 15 * value("stat_arb") * conf("stat_arb")
          den == 25 * conf("trend") + 20 * conf("mean_reversion")
                   + 25 * conf("momentum") + 15 * conf("volatility")
                   + 15 * conf("stat_arb")
          above == den > 0 /\ 5 * num > den
          below == den > 0 /\ 5 * num < -den
      IN  /\ ensCombined.signal = "bullish" <=> above
          /\ ensCombined.signal = "bearish" <=> below
          /\ ensCombined.signal = "neutral" <=> (~above /\ ~below)
          /\ (\A s \in Strategies : ensSignals[s].signal = "neutral")
             => ensCombined.signal = "neutral"

\* C18 witness: a bullish result reached against a bearish sub-strategy
C18_Witness ==
    /\ ensPc = "done"
    /\ ensCombined.signal = "bullish"
    /\ ensSignals["momentum"].signal = "bearish"
    /\ ensSignals["stat_arb"].signal = "neutral"

(***************************************************************************)
(* Backtester.run_backtest and _calculate_performance_metrics: the series  *)
(* of portfolio values and its maximum drawdown.  Sharpe and Sortino       *)
(* ratios are not represented.                                             *)
(***************************************************************************)
MaxDays == 3

\* values a day can close at, and the initial capital of the run
PortfolioValues == {90, 95, 100, 110}

\* rows whose "Daily Return" is not null: pct_change is null on the first row
CleanReturnsHeight(values) == Len(values) - 1

\* the drawdown loop from index i on; dates are positions in the series,
\* 0 stands for None
RECURSIVE DrawdownLoop(_, _, _, _, _, _)
DrawdownLoop(values, i, peak_value, peak_date, max_drawdown, max_drawdown_date) ==
    IF i > Len(values)
    THEN [max_drawdown |-> max_drawdown, max_drawdown_date |-> max_drawdown_date]
    ELSE IF values[i] > peak_value
         THEN DrawdownLoop(values, i + 1, values[i], i, max_drawdown, max_drawdown_date)
         ELSE LET drawdown == R(values[i] - peak_value, peak_value)
              IN  IF RLt(drawdown, max_drawdown)
                  THEN DrawdownLoop(values, i + 1, peak_value, peak_date, drawdown, peak_date)
                  ELSE DrawdownLoop(values, i + 1, peak_value, peak_date, max_drawdown,
                                    max_drawdown_date)

PerformanceMetrics(values, metrics) ==
    IF CleanReturnsHeight(values) < 2
    THEN metrics    \* "not enough data points": returns before the drawdown loop
    ELSE LET loop == DrawdownLoop(values, 2, values[1], 1, RZero, metrics.max_drawdown_date)
         IN  [max_drawdown |-> RMul(loop.max_drawdown, RInt(100)),
              max_drawdown_date |-> loop.max_drawdown_date]

PerfInit ==
    /\ RunIdle
    /\ LedgerStart({RZero})
    /\ OrchIdle
    /\ TechIdle
    /\ RiskIdle
    /\ EnsIdle
    /\ perfPc = "running"
    /\ \E c \in PortfolioValues : portfolio_values = <<c>>
    /\ performance_metrics = NewPerformanceMetrics

\* one trading day of run_backtest: the day's portfolio value is appended
RecordValue ==
    /\ perfPc = "running"
    /\ Len(portfolio_values) < MaxDays + 1
    /\ \E v \in PortfolioValues : portfolio_values' = Append(portfolio_values, v)
    /\ UNCHANGED <<perfPc, performance_metrics>>
    /\ UNCHANGED <<runVars, ledgerVars, orchVars, techVars, allocation, summary,
                   riskVars, ensVars>>

\* the date range is exhausted: run_backtest calls _calculate_performance_metrics
CalculatePerformanceMetrics ==
    /\ perfPc = "running"
    /\ performance_metrics' = PerformanceMetrics(portfolio_values, performance_metrics)
    /\ perfPc' = "done"
    /\ UNCHANGED portfolio_values
    /\ UNCHANGED <<runVars, ledgerVars, orchVars, techVars, allocation, summary,
                   riskVars, ensVars>>

PerfNext == RecordValue \/ CalculatePerformanceMetrics

PerfSpec == PerfInit /\ [][PerfNext]_vars

AllocMargin == R(1, 2)

\* the portfolio after one more "short MaxQty shares of T1 at 2"
Shorted(pf) == ExecuteTrade(pf, "T1", "short", MaxQty, RInt(2)).pf

\* a portfolio worth more than the floor of RiskPortfolioValue
LargeCapitals == {20000}

\* a fresh portfolio, and the same after one and after two shorts; a large
\* portfolio after "buy MaxQty shares of T1 at 1000" and one after
\* "buy 1 share of T2 at 1000"
AllocPortfolios ==
    {NewPortfolio(c, AllocMargin) : c \in InitialCapitals}
    \cup {ExecuteTrade(NewPortfolio(c, AllocMargin), "T1", "buy",
                       MaxQty, RInt(1000)).pf : c \in LargeCapitals}
    \cup {ExecuteTrade(NewPortfolio(c, AllocMargin), "T2", "buy",
                       1, RInt(1000)).pf : c \in LargeCapitals}
    \cup {Shorted(NewPortfolio(c, AllocMargin)) : c \in InitialCapitals}
    \cup {Shorted(Shorted(NewPortfolio(c, AllocMargin))) : c \in InitialCapitals}

\* what the reasoning collaborator proposed for one ticker
AllocProposals ==
    {[action |-> a, quantity |-> q, confidence |-> c] :
        a \in {"hold", "buy", "short"}, q \in {-1, 1, MaxShares},
        c \in {-5, 0, 4, 90, NaN}}

AllocInit ==
    /\ portfolio \in AllocPortfolios
    /\ last = NoTrade
    /\ hist = [t \in Tickers |-> [long |-> NoHist, short |-> NoHist]]
    /\ nTrades = 0
    /\ TechIdle
    /\ RestIdle
    /\ pc = "optimize"
    /\ fetchKind = [t \in Tickers |-> "data"]
    /\ prices_dict = Tickers
    /\ agent_signals = ("bill_ackman" :> Tickers) @@ ("technical_analyst" :> Tickers)
    /\ risk_signals \in [Tickers -> {[max_position_size |-> z] : z \in RiskSizes}]
    /\ idx = Len(TickerOrder) + 1
    /\ attempt = 0
    /\ calls = 0
    /\ proposed \in [Tickers -> AllocProposals]
    /\ decisions = [t \in Tickers |->
                      ApplyRiskConstraints(proposed[t], t, risk_signals)]
    /\ returned = NoDecisions
    /\ failed = {}
    /\ fellBack = {}
    /\ raisedBy = "none"
    /\ allocation = NoDecisions
    /\ summary = NoSummary

AllocNext == OptimizeAndReturn

AllocSpec == AllocInit /\ [][AllocNext]_vars

\* C20: after the portfolio-level pass, only decisions that are not hold and
\* have quantity > 0 hold an allocation, every allocation_pct is at most
\* max_position_pct, and the allocated values sum to at most the portfolio value
C20_AllocationWithinCeilingAndValue ==
    pc = "returned" =>
      LET value(t) == IF t \in DOMAIN allocation
                      THEN allocation[t].allocation_value ELSE RZero
          total == RAdd(value("T1"), value("T2"))
      IN  /\ \A t \in DOMAIN allocation :
                /\ decisions[t].action # "hold"
                /\ decisions[t].quantity > 0
                /\ RLe(allocation[t].allocation_pct, max_position_pct)
          /\ RLe(total, MixGoPortfolioValue(portfolio))

(***************************************************************************)
(* The rate-limited fetch: Backtester._fetch_with_rate_limit and           *)
(* DataFetcher.fetch_with_rate_limit (signals/data/fetcher.py).  The       *)
(* sleeps take no part in the result; only the ones that follow a          *)
(* rate-limit response are counted.                                        *)
(***************************************************************************)
max_retries == 5

FetchOwners == {"backtester", "data_fetcher"}

\* what one invocation of fetch_func does: "ok" it returns; it raises an
\* error whose text names 429/throttled ("rate_limit"), 404/no data found
\* ("not_found"), or neither ("error")
FetchOutcomes == {"ok", "rate_limit", "not_found", "error"}

\* mutant: the loop has no bound
FetchLoopContinues_Unbounded(n) == TRUE

\* for attempt in range(max_retries)
FetchLoopContinues(n) == n < max_retries

\* one iteration of the loop body: "return" leaves the function with result,
\* "retry" goes to the next iteration; waited: the rate-limit sleep was taken
FetchIteration(owner, outcome) ==
    CASE outcome = "ok" ->
           [status |-> "return", result |-> "result", waited |-> FALSE]
      [] outcome = "rate_limit" ->
           [status |-> "retry", result |-> "pending", waited |-> TRUE]
      [] outcome # "ok" /\ outcome # "rate_limit" /\ owner = "backtester" ->
           [status |-> "return", result |-> "None", waited |-> FALSE]
      [] outcome = "not_found" /\ owner = "data_fetcher" ->
           [status |-> "return", result |-> "None", waited |-> FALSE]
      [] OTHER ->
           [status |-> "retry", result |-> "pending", waited |-> FALSE]

FetchInit ==
    /\ LedgerStart({RZero})
    /\ OrchIdle
    /\ TechIdle
    /\ RiskIdle
    /\ PerfIdle
    /\ EnsIdle
    /\ BacktestIdle
    /\ fetch_owner \in FetchOwners
    /\ fetch_attempt = 0
    /\ fetch_trace = << >>
    /\ fetch_waits = 0
    /\ fetch_result = "pending"

\* one iteration: fetch_func is invoked once; after the last iteration the
\* function falls out of the loop and returns None
FetchAttempt ==
    /\ fetch_result = "pending"
    /\ \E o \in FetchOutcomes :
         LET r == FetchIteration(fetch_owner, o)
         IN  /\ fetch_trace' = Append(fetch_trace, o)
             /\ fetch_waits' = IF r.waited THEN fetch_waits + 1 ELSE fetch_waits
             /\ IF r.status = "return"
                THEN /\ fetch_result' = r.result
                     /\ UNCHANGED fetch_attempt
                ELSE /\ fetch_attempt' = fetch_attempt + 1
                     /\ fetch_result' = IF FetchLoopContinues(fetch_attempt + 1)
                                        THEN "pending" ELSE "None"
    /\ UNCHANGED fetch_owner
    /\ UNCHANGED <<ledgerVars, orchVars, techVars, allocation, summary,
                   riskVars, perfVars, ensVars, btVars>>

FetchNext == FetchAttempt

FetchSpec == FetchInit /\ [][FetchNext]_vars

\* C21: fetch_func is invoked at most 5 times; every rate-limit response was
\* followed by a wait; the call is still running only while fewer than 5
\* invocations were made; it ends with the value of fetch_func exactly when
\* the last invocation succeeded and with None otherwise (it never raises)
C21_BoundedFetchFailsSoft ==
    LET calls0 == Len(fetch_trace)
        limited == Cardinality({i \in 1..calls0 : fetch_trace[i] = "rate_limit"})
    IN  /\ calls0 <= 5
        /\ fetch_waits = limited
        /\ fetch_result \in {"pending", "result", "None"}
        /\ fetch_result = "pending" => calls0 < 5
        /\ fetch_result = "result" <=> (calls0 > 0 /\ fetch_trace[calls0] = "ok")
        /\ (calls0 = 5 /\ fetch_trace[calls0] # "ok") => fetch_result = "None"

\* C21 witness: five rate-limit responses, five waits, the call abandoned
C21_Witness ==
    /\ Len(fetch_trace) = 5
    /\ \A i \in 1..5 : fetch_trace[i] = "rate_limit"
    /\ fetch_waits = 5
    /\ fetch_result = "None"

(***************************************************************************)
(* Backtester.run_backtest: the loop over the trading days.  A day is      *)
(* taken in steps: the prices are resolved, the decisions are generated,   *)
(* the trade loop handles one decision per step, the value is recorded.    *)
(* The performance metrics computed after the loop are not represented.    *)
(***************************************************************************)
\* pd.date_range(start_date, end_date, freq='B'): the business days
date_range == <<1, 2>>

\* _get_prices_for_date uses 100.0 for a ticker without price data
DefaultPrice == 100

DayPrices == {2, DefaultPrice}

\* what analyze returns for one ticker (the confidence plays no part here)
DayDecisions ==
    {[action |-> "hold", quantity |-> 1], [action |-> "buy", quantity |-> 1],
     [action |-> "buy", quantity |-> 0], [action |-> "short", quantity |-> 2],
     [action |-> "cover", quantity |-> 1]}

BacktestMargins == {R(1, 2)}

\* if decision.action != "hold" and decision.quantity > 0
Executes(decision) == decision.action # "hold" /\ decision.quantity > 0

\* mutant: analyze is handed the portfolio of the start of the run
ObservedLedger_Stale(pf) ==
    NewPortfolio(CHOOSE c \in InitialCapitals : TRUE, pf.margin_requirement)

\* portfolio=self.portfolio: analyze is handed the ledger itself
ObservedLedger(pf) == pf

\* Backtester._calculate_portfolio_value(current_prices), tickers i..
RECURSIVE MarkToMarket(_, _, _)
MarkToMarket(pf, prices, i) ==
    IF i > Len(TickerOrder) THEN RZero
    ELSE LET position == pf.positions[TickerOrder[i]]
             price == prices[TickerOrder[i]]
             long_value == IF price > 0
                           THEN RMul(RInt(position.long), RInt(price))
                           ELSE RZero
             short_pnl == IF price > 0 /\ position.short > 0
                          THEN RMul(RInt(position.short),
                                    RSub(position.short_cost_basis, RInt(price)))
                          ELSE RZero
         IN  RAdd(RAdd(long_value, short_pnl), MarkToMarket(pf, prices, i + 1))

CalculatePortfolioValue(pf, prices) == RAdd(pf.cash, MarkToMarket(pf, prices, 1))

\* the loop goes on with the next date, or is exhausted
NextDate(d) == IF d < Len(date_range) THEN "prices" ELSE "done"

BacktestInit ==
    /\ LedgerStart(BacktestMargins)
    /\ OrchIdle
    /\ TechIdle
    /\ RiskIdle
    /\ EnsIdle
    /\ FetchIdle
    /\ perfPc = "running"
    /\ portfolio_values = <<[Date |-> date_range[1], Value |-> portfolio.cash]>>
    /\ performance_metrics = NewPerformanceMetrics
    /\ btPc = "prices"
    /\ current_date = 1
    /\ current_prices = NoDecisions
    /\ day_decisions = NoDecisions
    /\ trade_idx = 1
    /\ events = << >>

\* current_prices = await self._get_prices_for_date(current_date_str): every
\* ticker gets a price, the default one when none is found
GetPricesForDate ==
    /\ btPc = "prices"
    /\ current_prices' \in [Tickers -> DayPrices]
    /\ btPc' = "analyze"
    /\ UNCHANGED <<current_date, day_decisions, trade_idx, events>>
    /\ UNCHANGED <<ledgerVars, orchVars, techVars, allocation, summary,
                   riskVars, perfVars, ensVars, fetchVars>>

\* decisions = await self.mixgo_agent.analyze(...) returns
AnalyzeReturns ==
    /\ btPc = "analyze"
    /\ day_decisions' \in [Tickers -> DayDecisions]
    /\ trade_idx' = 1
    /\ events' = Append(events, [kind |-> "analyze", date |-> date_range[current_date],
                                 ledger |-> ObservedLedger(portfolio)])
    /\ btPc' = "trade"
    /\ UNCHANGED <<current_date, current_prices>>
    /\ UNCHANGED <<ledgerVars, orchVars, techVars, allocation, summary,
                   riskVars, perfVars, ensVars, fetchVars>>

\* analyze raises: "Skip this day and continue"
AnalyzeRaises ==
    /\ btPc = "analyze"
    /\ events' = Append(events, [kind |-> "failed", date |-> date_range[current_date],
                                 ledger |-> ObservedLedger(portfolio)])
    /\ btPc' = NextDate(current_date)
    /\ current_date' = current_date + 1
    /\ UNCHANGED <<current_prices, day_decisions, trade_idx>>
    /\ UNCHANGED <<ledgerVars, orchVars, techVars, allocation, summary,
                   riskVars, perfVars, ensVars, fetchVars>>

\* one iteration of "for ticker, decision in decisions.items()"
ExecuteTrades ==
    /\ btPc = "trade"
    /\ LET ticker == TickerOrder[trade_idx]
           decision == day_decisions[ticker]
       IN  IF Executes(decision)
           THEN /\ LedgerCall(ticker, decision.action, decision.quantity,
                              current_prices[ticker])
                /\ events' = Append(events, [kind |-> "trade",
                                             date |-> date_range[current_date],
                                             ledger |-> portfolio'])
           ELSE UNCHANGED <<ledgerVars, events>>
    /\ trade_idx' = trade_idx + 1
    /\ btPc' = IF trade_idx = Len(TickerOrder) THEN "record" ELSE "trade"
    /\ UNCHANGED <<current_date, current_prices, day_decisions>>
    /\ UNCHANGED <<orchVars, techVars, allocation, summary,
                   riskVars, perfVars, ensVars, fetchVars>>

\* self.portfolio_values.append({"Date": ..., "Portfolio Value": ...})
UpdatePortfolioValue ==
    /\ btPc = "record"
    /\ portfolio_values' =
         Append(portfolio_values,
                [Date |-> date_range[current_date],
                 Value |-> CalculatePortfolioValue(portfolio, current_prices)])
    /\ events' = Append(events, [kind |-> "record", date |-> date_range[current_date],
                                 ledger |-> portfolio])
    /\ btPc' = NextDate(current_date)
    /\ current_date' = current_date + 1
    /\ UNCHANGED <<current_prices, day_decisions, trade_idx>>
    /\ UNCHANGED <<perfPc, performance_metrics>>
    /\ UNCHANGED <<ledgerVars, orchVars, techVars, allocation, summary,
                   riskVars, ensVars, fetchVars>>

BacktestNext ==
    \/ GetPricesForDate
    \/ AnalyzeReturns
    \/ AnalyzeRaises
    \/ ExecuteTrades
    \/ UpdatePortfolioValue

BacktestSpec == BacktestInit /\ [][BacktestNext]_vars

\* C22: when the loop is over, the value series holds exactly one entry for
\* every business day of date_range, in ascending date order
C22_OneEntryPerBusinessDay ==
    btPc = "done" =>
        [i \in 1..Len(portfolio_values) |-> portfolio_values[i].Date] = date_range

\* C23: the recorded steps are in ascending day order; a day is analysed at
\* most once; every trade of a day comes after that day's decisions were
\* obtained and before that day's value is recorded; the value is recorded
\* after the decisions; and the ledger handed to the orchestrator is the one
\* left by the last trade before it (the initial one when there was none)
C23_DaysAndStepsAreSequential ==
    LET n == Len(events)
        before(j, k, d) == \E i \in 1..(j - 1) :
                              events[i].kind = k /\ events[i].date = d
        trades(j) == {i \in 1..(j - 1) : events[i].kind = "trade"}
        latest(S) == CHOOSE i \in S : \A k \in S : k <= i
        ledgerBefore(j) ==
            IF trades(j) = {}
            THEN NewPortfolio(CHOOSE c \in InitialCapitals : TRUE,
                              portfolio.margin_requirement)
            ELSE events[latest(trades(j))].ledger
    IN  /\ \A i, j \in 1..n : i < j => events[i].date <= events[j].date
        /\ \A j \in 1..n :
              /\ events[j].kind \in {"analyze", "failed"} =>
                    /\ ~before(j, "analyze", events[j].date)
                    /\ ~before(j, "failed", events[j].date)
                    /\ events[j].ledger = ledgerBefore(j)
                    /\ \A i \in trades(j) : events[i].date < events[j].date
              /\ events[j].kind = "trade" =>
                    /\ before(j, "analyze", events[j].date)
                    /\ ~before(j, "record", events[j].date)
              /\ events[j].kind = "record" =>
                    /\ before(j, "analyze", events[j].date)
                    /\ ~before(j, "record", events[j].date)
                    /\ events[j].ledger = ledgerBefore(j)
        /\ btPc = "done" =>
              \A d \in 1..Len(date_range) :
                 \E j \in 1..n : events[j].date = date_range[d]
                                 /\ events[j].kind \in {"analyze", "failed"}

\* C23 witness: both days traded, and the second day's decisions were made
\* on the ledger the first day's trades left
C23_Witness ==
    /\ btPc = "done"
    /\ \E i, j, k \in 1..Len(events) :
          /\ i < j /\ j < k
          /\ events[i].kind = "trade" /\ events[i].date = date_range[1]
          /\ events[j].kind = "analyze" /\ events[j].date = date_range[2]
          /\ events[j].ledger = events[i].ledger
          /\ events[j].ledger.positions # NewPortfolio(3, RZero).positions
          /\ events[k].kind = "trade" /\ events[k].date = date_range[2]

(***************************************************************************)
(* Calls of _execute_trade that must not trade (backtester.py:332-338,     *)
(* 490) and the guard of the trade loop (backtester.py:203-211)            *)
(***************************************************************************)
\* direct calls made one after the other
MaxCalls == 2

\* the actions a caller may pass: the four trades, hold, and an unknown one
CallActions == TradeActions \cup {"hold", "liquidate"}

CallQuantities == {-1, 0} \cup Quantities

CallPrices == {-1, 0} \cup Prices

\* a call with a quantity <= 0 or a price <= 0, made outside a backtest run
RejectedCall ==
    /\ btPc = "idle"
    /\ nTrades < MaxCalls
    /\ \E t \in Tickers, a \in CallActions, q \in CallQuantities, p \in CallPrices :
          /\ q <= 0 \/ p <= 0
          /\ Trade(t, a, q, p)

\* a call with an action that is none of buy, sell, short, cover
UnknownActionCall ==
    /\ btPc = "idle"
    /\ nTrades < MaxCalls
    /\ \E t \in Tickers, a \in CallActions \ TradeActions,
          q \in Quantities, p \in Prices : Trade(t, a, q, p)

\* a call that reaches one of the four branches
TradingCall == btPc = "idle" /\ nTrades < MaxCalls /\ LedgerNext

\* either _execute_trade is called directly, or run_backtest makes the calls
CallInit == LedgerInit \/ BacktestInit

CallNext ==
    \/ RejectedCall
    \/ UnknownActionCall
    \/ TradingCall
    \/ BacktestNext

CallSpec == CallInit /\ [][CallNext]_vars

\* the call recorded in last' is one the ledger must ignore
IgnoredCall(call) ==
    \/ call.quantity <= 0
    \/ call.price <= 0
    \/ call.action \notin TradeActions

\* C24: a call of _execute_trade with quantity <= 0, with price <= 0 or
\* with an action outside {buy, sell, short, cover} leaves cash, margin_used,
\* every position and the realized gains as they were and returns 0; and
\* the calls run_backtest makes are never for a hold decision nor for a
\* quantity of 0 or less.
C24_IgnoredCallsLeaveLedgerAlone ==
    /\ [][nTrades' # nTrades /\ IgnoredCall(last')
            => portfolio' = portfolio /\ last'.executed = 0]_vars
    /\ [](btPc # "idle" /\ last # NoTrade
            => last.action # "hold" /\ last.quantity > 0)

\* a direct call with a negative quantity came after a trade that had
\* changed the ledger
C24_Witness ==
    /\ btPc = "idle"
    /\ nTrades = MaxCalls
    /\ last.quantity < 0
    /\ last.action = "buy"
    /\ last.executed = 0
    /\ portfolio.positions["T1"].short > 0

(***************************************************************************)
(* Claims about the portfolio-level pass (mixgo.py:218-243)                *)
(***************************************************************************)
\* C25: the portfolio-level optimization pass is advisory: for every ticker
\* the decision analyze returns has the action, quantity and confidence of
\* the risk-clamped decision handed to _optimize_portfolio_decisions, and no
\* step of analyze modifies the portfolio it was given.
C25_OptimizationPassIsAdvisory ==
    /\ [](pc = "returned" =>
            /\ DOMAIN returned = DOMAIN decisions
            /\ \A t \in DOMAIN decisions :
                  /\ returned[t].action = decisions[t].action
                  /\ returned[t].quantity = decisions[t].quantity
                  /\ returned[t].confidence = decisions[t].confidence)
    /\ [][portfolio' = portfolio]_vars

\* analyze returned after the pass had computed an allocation for an
\* actionable decision
C25_Witness ==
    /\ pc = "returned"
    /\ allocation # NoDecisions
    /\ \E t \in Tickers :
          /\ returned[t].action \in {"buy", "short"}
          /\ returned[t].quantity > 0

\* cash + sum(long * long_cost_basis) + sum(short * short_cost_basis)
RECURSIVE ValueAtCost(_, _)
ValueAtCost(pf, i) ==
    IF i > Len(TickerOrder) THEN pf.cash
    ELSE LET position == pf.positions[TickerOrder[i]]
         IN  RAdd(RAdd(RMul(RInt(position.long), position.long_cost_basis),
                       RMul(RInt(position.short), position.short_cost_basis)),
                  ValueAtCost(pf, i + 1))

\* some side of some position is worth more than max_position_pct of total
ExceedsPositionLimit(pf, total) ==
    \E t \in Tickers :
       \/ RLt(RMul(max_position_pct, total),
              RMul(RInt(pf.positions[t].long), pf.positions[t].long_cost_basis))
       \/ RLt(RMul(max_position_pct, total),
              RMul(RInt(pf.positions[t].short), pf.positions[t].short_cost_basis))

\* C26: get_portfolio_summary reports total_value = cash + sum(long *
\* long_cost_basis) + sum(short * short_cost_basis) for every portfolio, and
\* reports within_risk_limits = false exactly when a single position is
\* worth more than max_position_pct of that total value.
C26_SummaryReportsValueAndLimit ==
    pc = "returned" =>
        /\ summary.total_value = ValueAtCost(portfolio, 1)
        /\ summary.within_risk_limits =
              ~ExceedsPositionLimit(portfolio, ValueAtCost(portfolio, 1))

(***************************************************************************)
(* Accounting invariants of the ledger (backtester.py:332-490)             *)
(***************************************************************************)
\* the sum of f[t] over the tickers i..
RECURSIVE SumOverTickers(_, _)
SumOverTickers(f, i) ==
    IF i > Len(TickerOrder) THEN RZero
    ELSE RAdd(f[TickerOrder[i]], SumOverTickers(f, i + 1))

LongAtCost(pf) ==
    SumOverTickers([t \in Tickers |->
        RMul(RInt(pf.positions[t].long), pf.positions[t].long_cost_basis)], 1)

ShortAtCost(pf) ==
    SumOverTickers([t \in Tickers |->
        RMul(RInt(pf.positions[t].short), pf.positions[t].short_cost_basis)], 1)

RealizedGains(pf) ==
    SumOverTickers([t \in Tickers |->
        RAdd(pf.realized_gains[t].long, pf.realized_gains[t].short)], 1)

PositionMargins(pf) ==
    SumOverTickers([t \in Tickers |-> pf.positions[t].short_margin_used], 1)

\* C27: after any sequence of buy, sell, short and cover trades,
\* cash + margin_used + sum(long * long_cost_basis)
\* - sum(short * short_cost_basis) - sum(realized_gains.long +
\* realized_gains.short) equals the initial capital.
C27_LedgerAccountingIdentity ==
    \E initial_capital \in InitialCapitals :
        RSub(RSub(RAdd(RAdd(portfolio.cash, portfolio.margin_used),
                       LongAtCost(portfolio)),
                  ShortAtCost(portfolio)),
             RealizedGains(portfolio)) = RInt(initial_capital)

\* a cover at a price other than the basis realized a gain or a loss while
\* the other ticker is held long
C27_Witness ==
    /\ last.action = "cover"
    /\ last.executed > 0
    /\ portfolio.realized_gains[last.ticker].short # RZero
    /\ \E t \in Tickers : portfolio.positions[t].long > 0

\* C28: after any sequence of buy, sell, short and cover trades from an
\* initial capital >= 0 with a margin requirement in [0, 1], cash is >= 0;
\* in particular a cover never drives it below zero.
C28_CashNeverNegative == NonNeg(portfolio.cash)

NoPriceData(t) == fetchKind[t] \in {"raise", "empty"}

====
